---- MODULE Spec2Model ----
(***************************************************************************)
(* Model of QWC2ViewerPermission (src/qwc2_viewer_permission.py): the      *)
(* theme tree walker, the edit permission aggregator, the edit dataset     *)
(* resolution and the edit schema builder.                                 *)
(*                                                                         *)
(* Python str values that are parsed, sliced or concatenated by the code   *)
(* (URLs, paths, map names, layer names, dataset names) are sequences of   *)
(* one-character strings.  Python dicts are functions; a key that is       *)
(* absent from a dict is absent from the function's DOMAIN.                *)
(***************************************************************************)
EXTENDS Integers, Sequences, FiniteSets, TLC

VARIABLES
    pc,            \* position of the running call
    env,           \* QGIS_SERVER_URL of the process environment
    qgis_server_base_path,   \* self.qgis_server_base_path
    config,        \* the parsed themes config document
    ogc,           \* the OGC permission handler, as a map ows_name -> result
    data_handler,  \* the Data permission handler, as a map dataset -> result
    db,            \* the permission store: [resources, permissions]
    username,      \* subject: user name passed to the entry point
    group0,        \* subject: group passed to the entry point
    permissions,   \* the accumulator of permissions()
    stack,         \* frames of themes_group_permissions, innermost last
    calls,         \* every call and query made so far, in order
    warnings,      \* every logger.warn message so far, in order
    raised,        \* the exception that ended the call, or "none"
    arg,           \* arguments of a direct call of an edit permission method
    ret            \* what the direct call returned

vars == <<pc, env, qgis_server_base_path, config, ogc, data_handler, db,
          username, group0, permissions, stack, calls, warnings, raised, arg, ret>>

(***************************************************************************)
(* Bounds of the model.                                                    *)
(***************************************************************************)
\* longest 'items' list of a theme group
MaxItems == 2
\* most permission rows in the permission store
MaxGrants == 3
\* longest 'attributes' list of a Data handler result
MaxAttrs == 2

(***************************************************************************)
(* Python values.                                                          *)
(***************************************************************************)
None == "<None>"

EmptyDict == [k \in {} |-> None]

\* dict.get(key, default)
Get(d, k, default) == IF k \in DOMAIN d THEN d[k] ELSE default

\* truth value of a dict or list: non-empty
Truthy(d) == DOMAIN d # {}

\* d[k] = v on a dict
DictSet(d, k, v) == [x \in DOMAIN d \cup {k} |-> IF x = k THEN v ELSE d[x]]

\* "%s.%s" % (a, b)
Format2(a, b) == a \o <<".">> \o b

\* s[n:]
SliceFrom(s, n) == SubSeq(s, n + 1, Len(s))

\* s.startswith(p)
StartsWith(s, p) == Len(p) <= Len(s) /\ SubSeq(s, 1, Len(p)) = p

\* s.rstrip('/')
RECURSIVE RStripSlash(_)
RStripSlash(s) ==
    IF s # <<>> /\ s[Len(s)] = "/" THEN RStripSlash(SubSeq(s, 1, Len(s) - 1)) ELSE s

\* index of the first character of s that is in cs, or 0
FirstOf(s, cs) ==
    IF \E i \in 1..Len(s) : s[i] \in cs
    THEN CHOOSE i \in 1..Len(s) : s[i] \in cs /\ \A j \in 1..(i - 1) : s[j] \notin cs
    ELSE 0

\* the part of s before the first character in cs (all of s when there is none)
Before(s, cs) == IF FirstOf(s, cs) = 0 THEN s ELSE SubSeq(s, 1, FirstOf(s, cs) - 1)

SchemeChars == {"h", "t", "p", "s"}

\* url_parse(url).path: drop "<scheme>:", then "//<netloc>", then "#<fragment>" and
\* "?<query>"
UrlPath(url) ==
    LET colon == FirstOf(url, {":"})
        hasScheme == colon > 1 /\ \A i \in 1..(colon - 1) : url[i] \in SchemeChars
        rest == IF hasScheme THEN SliceFrom(url, colon) ELSE url
        hasNetloc == StartsWith(rest, <<"/", "/">>)
        afterLoc == IF hasNetloc
                    THEN LET r == SliceFrom(rest, 2)
                         IN  SliceFrom(r, Len(Before(r, {"/", "?", "#"})))
                    ELSE rest
    IN  Before(Before(afterLoc, {"#"}), {"?"})

\* all sequences over S of length at most n
SeqUpTo(S, n) == UNION {[1..k -> S] : k \in 0..n}

\* the elements of a list
Range(s) == {s[i] : i \in DOMAIN s}

\* the orders in which a query may return the rows R
Orderings(R) == {s \in [1..Cardinality(R) -> R] : Range(s) = R}

(***************************************************************************)
(* Type mapping tables.                                                    *)
(***************************************************************************)
EDIT_GEOM_TYPES ==
    ("POINT" :> "Point") @@ ("MULTIPOINT" :> "MultiPoint") @@
    ("LINESTRING" :> "LineString") @@ ("MULTILINESTRING" :> "MultiLineString") @@
    ("POLYGON" :> "Polygon") @@ ("MULTIPOLYGON" :> "MultiPolygon")

EDIT_FIELD_TYPES ==
    ("bigint" :> "number") @@ ("boolean" :> "boolean") @@
    ("character varying" :> "text") @@ ("date" :> "date") @@
    ("double precision" :> "text") @@ ("integer" :> "number") @@
    ("numeric" :> "number") @@ ("real" :> "text") @@ ("smallint" :> "number") @@
    ("text" :> "text") @@ ("time" :> "time") @@
    ("timestamp with time zone" :> "date") @@
    ("timestamp without time zone" :> "date") @@ ("uuid" :> "text")

(***************************************************************************)
(* The subject and the events the model records.                           *)
(***************************************************************************)
\* a group argument that is a group name (str)
GroupName(g) == [kind |-> "name", val |-> g]

\* a group argument that is a theme group object of the themes config
ThemeGroup(node) == [kind |-> "theme_group", val |-> node]

\* one call or query: what was called, for which name, with which subject
Event(op, name, u, g) == [op |-> op, name |-> name, username |-> u, group |-> g]

(***************************************************************************)
(* The permission store (models 'resources' and 'permissions').            *)
(***************************************************************************)
\* permission.resource
ResourceOf(p) == db.resources[p.resource_id]

\* PermissionQuery.user_permissions_query(username, group, session): the
\* permission rows granted to the user or to the group
user_permissions_query(u, g) ==
    {p \in db.permissions :
        \/ p.kind = "user" /\ p.who = u
        \/ p.kind = "group" /\ g.kind = "name" /\ p.who = g.val}

\* rows of maps_query before DISTINCT ON (resources.name)
maps_query(map_name, u, g) ==
    {p \in user_permissions_query(u, g) :
        ResourceOf(p).type = "map" /\ ResourceOf(p).name = map_name}

\* rows of data_query
data_query_nowrite(map_id, u, g) ==
    {p \in user_permissions_query(u, g) :
        ResourceOf(p).type = "data" /\ ResourceOf(p).parent_id = map_id}

data_query(map_id, u, g) ==
    {p \in user_permissions_query(u, g) :
        ResourceOf(p).type = "data" /\ p.write /\ ResourceOf(p).parent_id = map_id}

\* edit_datasets(map_name, username, group, session): the possible outcomes.
\* DISTINCT ON keeps one of the map rows, and data_query.all() returns its rows
\* in an order the code does not fix.
edit_datasets_always_queries(map_name, u, g) ==
    LET here == <<Event("edit_datasets", map_name, u, g),
                  Event("maps_query", map_name, u, g),
                  Event("data_query", map_name, u, g)>>
        mrows == maps_query(map_name, u, g)
        ids == IF mrows = {} THEN {None} ELSE {ResourceOf(m).id : m \in mrows}
    IN  UNION {
          {[result |-> [i \in DOMAIN ord |-> ResourceOf(ord[i]).name],
            map_id |-> id, calls |-> here]
             : ord \in Orderings(data_query_nowrite(id, u, g))}
          : id \in ids}

edit_datasets(map_name, u, g) ==
    LET here == <<Event("edit_datasets", map_name, u, g),
                  Event("maps_query", map_name, u, g)>>
        mrows == maps_query(map_name, u, g)
    IN  IF mrows = {}
        THEN {[result |-> <<>>, map_id |-> None, calls |-> here]}
        ELSE UNION {
               {[result |-> [i \in DOMAIN ord |-> ResourceOf(ord[i]).name],
                 map_id |-> ResourceOf(m).id,
                 calls |-> Append(here, Event("data_query", map_name, u, g))]
                  : ord \in Orderings(data_query(ResourceOf(m).id, u, g))}
               : m \in mrows}

(***************************************************************************)
(* Edit schema builder.                                                    *)
(***************************************************************************)
\* lines 217-233: the edit field of one attribute
edit_field_typefirst(perms, attr) ==
    LET field == Get(perms.fields, attr, EmptyDict)
        alias == Get(field, "alias", attr)
        listed == Get(field, "data_type", None) \in DOMAIN EDIT_FIELD_TYPES
        data_type == Get(EDIT_FIELD_TYPES, Get(field, "data_type", None), "text")
        edit_field == [id |-> attr, name |-> alias, type |-> data_type]
    IN  IF "constraints" \in DOMAIN field
        THEN [id |-> attr, name |-> alias,
              type |-> IF "values" \in DOMAIN field["constraints"] /\ ~listed
                       THEN "list" ELSE data_type,
              constraints |-> field["constraints"]]
        ELSE edit_field

edit_field(perms, attr) ==
    LET field == Get(perms.fields, attr, EmptyDict)
        alias == Get(field, "alias", attr)
        data_type == Get(EDIT_FIELD_TYPES, Get(field, "data_type", None), "text")
        edit_field == [id |-> attr, name |-> alias, type |-> data_type]
    IN  IF "constraints" \in DOMAIN field
        THEN [id |-> attr, name |-> alias,
              type |-> IF "values" \in DOMAIN field["constraints"]
                       THEN "list" ELSE data_type,
              constraints |-> field["constraints"]]
        ELSE edit_field

\* lines 215-235: fields.append(edit_field) for each attr of permissions['attributes']
RECURSIVE build_fields_described(_, _, _)
build_fields_described(perms, i, fields) ==
    IF i > Len(perms.attributes) THEN fields
    ELSE build_fields_described(perms, i + 1,
            IF perms.attributes[i] \in DOMAIN perms.fields
            THEN Append(fields, edit_field(perms, perms.attributes[i]))
            ELSE fields)

RECURSIVE build_fields(_, _, _)
build_fields(perms, i, fields) ==
    IF i > Len(perms.attributes) THEN fields
    ELSE build_fields(perms, i + 1,
                      Append(fields, edit_field(perms, perms.attributes[i])))

\* line 203: the geometry type is one the viewer can edit
supported_geometry_lax(geometry_type) ==
    geometry_type \in DOMAIN EDIT_GEOM_TYPES \cup {"point", "GEOMETRYCOLLECTION"}

supported_geometry(geometry_type) == geometry_type \in DOMAIN EDIT_GEOM_TYPES

\* edit_layer_config(map_name, layer_name, username, group, session)
edit_layer_config(map_name, layer_name, u, g) ==
    LET dataset == Format2(map_name, layer_name)
        perms == data_handler[dataset]
        here == <<Event("edit_layer_config", dataset, u, g),
                  Event("data.permissions", dataset, u, g)>>
    IN  IF ~supported_geometry(perms.geometry_type)
        THEN [result |-> EmptyDict, calls |-> here,
              warnings |-> <<[geometry_type |-> perms.geometry_type,
                              dataset |-> dataset,
                              table |-> Format2(perms.schema, perms.table_name)]>>]
        ELSE [result |-> [layerName |-> layer_name,
                          editDataset |-> dataset,
                          fields |-> build_fields(perms, 1, <<>>),
                          geomType |-> Get(EDIT_GEOM_TYPES, perms.geometry_type, None)],
              calls |-> here, warnings |-> <<>>]

(***************************************************************************)
(* Edit permission aggregator.                                             *)
(***************************************************************************)
\* lines 142-147: the loop over edit_datasets; acc is [result, calls, warnings]
RECURSIVE collect_edit_config_abort(_, _, _, _, _, _)
collect_edit_config_abort(map_name, datasets, i, u, g, acc) ==
    IF i > Len(datasets) THEN acc
    ELSE LET c == edit_layer_config(map_name, datasets[i], u, g)
             next == [result |-> IF Truthy(c.result)
                                 THEN DictSet(acc.result, datasets[i], c.result)
                                 ELSE acc.result,
                      calls |-> acc.calls \o c.calls,
                      warnings |-> acc.warnings \o c.warnings]
         IN  IF Truthy(c.result)
             THEN collect_edit_config_abort(map_name, datasets, i + 1, u, g, next)
             ELSE next

RECURSIVE collect_edit_config(_, _, _, _, _, _)
collect_edit_config(map_name, datasets, i, u, g, acc) ==
    IF i > Len(datasets) THEN acc
    ELSE LET c == edit_layer_config(map_name, datasets[i], u, g)
         IN  collect_edit_config(map_name, datasets, i + 1, u, g,
                [result |-> IF Truthy(c.result)
                            THEN DictSet(acc.result, datasets[i], c.result)
                            ELSE acc.result,
                 calls |-> acc.calls \o c.calls,
                 warnings |-> acc.warnings \o c.warnings])

\* edit_permissions(map_name, username, group, session): the possible outcomes
edit_permissions(map_name, u, g) ==
    {LET r == collect_edit_config(map_name, d.result, 1, u, g,
                  [result |-> EmptyDict,
                   calls |-> <<Event("edit_permissions", map_name, u, g)>> \o d.calls,
                   warnings |-> <<>>])
     IN  [result |-> r.result, calls |-> r.calls, warnings |-> r.warnings,
          datasets |-> d.result, map_id |-> d.map_id]
       : d \in edit_datasets(map_name, u, g)}

(***************************************************************************)
(* Theme tree walker.                                                      *)
(***************************************************************************)
\* line 106: 'if url:' for url = item.get('url')
has_url(item) == "url" \in DOMAIN item /\ item["url"] # <<>>

\* lines 108-110: the WMS name of a URL, relative to the QGIS server base path
wms_name_always_sliced(url) ==
    SliceFrom(UrlPath(url), Len(qgis_server_base_path))

wms_name(url) ==
    LET path == UrlPath(url)
    IN  IF StartsWith(path, qgis_server_base_path)
        THEN SliceFrom(path, Len(qgis_server_base_path))
        ELSE path

\* line 118: 'if permissions[wms_name]:'
ogc_granted_always(result) == TRUE

ogc_granted(result) == Truthy(result)

\* def themes_group_permissions(self, group_config, permissions, username,
\*                              group, session): parameters after self
ThemesGroupPermissionsArity == 5

\* a frame of themes_group_permissions: its locals and its position in the
\* two loops
Frame(group_config, u, g) ==
    [group_config |-> group_config, username |-> u, group |-> g, i |-> 1, j |-> 1]

Top == stack[Len(stack)]

\* the top frame with its locals changed
SetTop(f) == [stack EXCEPT ![Len(stack)] = f]

\* lines 81-88: permissions() starts the walk on config.get('themes', {})
Permissions ==
    /\ pc = "permissions"
    /\ pc' = "walk"
    /\ permissions' = EmptyDict
    /\ stack' = <<Frame(Get(config, "themes", EmptyDict), username, group0)>>
    /\ calls' = Append(calls, Event("themes_group_permissions", <<>>, username, group0))
    /\ UNCHANGED <<env, qgis_server_base_path, config, ogc, data_handler, db,
                   username, group0, warnings, raised, arg, ret>>

\* lines 104-124: one iteration of 'for item in theme_items'
ItemStep ==
    /\ pc = "walk"
    /\ stack # <<>>
    /\ Top.i <= Len(Get(Top.group_config, "items", <<>>))
    /\ LET item == Get(Top.group_config, "items", <<>>)[Top.i]
       IN  IF has_url(item)
           THEN LET name == wms_name(item["url"])
                    result == ogc[name]
                    query == Event("ogc.permissions", name, Top.username, Top.group)
                IN  IF ogc_granted(result)
                    THEN \E e \in edit_permissions(name, Top.username, Top.group) :
                           /\ permissions' =
                                DictSet(permissions, name,
                                        IF Truthy(e.result)
                                        THEN DictSet(result, "edit_config", e.result)
                                        ELSE result)
                           /\ calls' = Append(calls, query) \o e.calls
                           /\ warnings' = warnings \o e.warnings
                    ELSE /\ permissions' = DictSet(permissions, name, result)
                         /\ calls' = Append(calls, query)
                         /\ UNCHANGED warnings
           ELSE UNCHANGED <<permissions, calls, warnings>>
    /\ stack' = SetTop([Top EXCEPT !.i = @ + 1])
    /\ UNCHANGED <<pc, env, qgis_server_base_path, config, ogc, data_handler, db,
                   username, group0, raised, arg, ret>>

\* lines 126-129: one iteration of 'for group in groups'.  The loop variable is
\* the parameter 'group'; the call passes four arguments after self.
GroupStep ==
    /\ pc = "walk"
    /\ stack # <<>>
    /\ Top.i > Len(Get(Top.group_config, "items", <<>>))
    /\ Top.j <= Len(Get(Top.group_config, "groups", <<>>))
    /\ LET group == Get(Top.group_config, "groups", <<>>)[Top.j]
           caller == [Top EXCEPT !.group = ThemeGroup(group), !.j = @ + 1]
           args == <<group, "permissions", caller.username, caller.group>>
       IN  /\ calls' = Append(calls, Event("themes_group_permissions", <<>>,
                                           args[3], args[4]))
           /\ IF Len(args) = ThemesGroupPermissionsArity
              THEN /\ stack' = Append(SetTop(caller), Frame(args[1], args[3], args[4]))
                   /\ UNCHANGED <<pc, raised>>
              ELSE /\ stack' = SetTop(caller)
                   /\ pc' = "raised"
                   /\ raised' = "TypeError"
    /\ UNCHANGED <<env, qgis_server_base_path, config, ogc, data_handler, db,
                   username, group0, permissions, warnings, arg, ret>>

\* the end of themes_group_permissions: back in the caller, or in permissions()
\* at line 90
Return ==
    /\ pc = "walk"
    /\ stack # <<>>
    /\ Top.i > Len(Get(Top.group_config, "items", <<>>))
    /\ Top.j > Len(Get(Top.group_config, "groups", <<>>))
    /\ stack' = SubSeq(stack, 1, Len(stack) - 1)
    /\ pc' = IF Len(stack) = 1 THEN "done" ELSE "walk"
    /\ UNCHANGED <<env, qgis_server_base_path, config, ogc, data_handler, db,
                   username, group0, permissions, calls, warnings, raised, arg, ret>>

(***************************************************************************)
(* Direct calls of the edit permission methods.                            *)
(***************************************************************************)
CallEditDatasets ==
    /\ pc = "call_edit"
    /\ \E out \in edit_datasets(arg.map_name, username, group0) :
         /\ ret' = out
         /\ calls' = out.calls
    /\ pc' = "returned_edit_datasets"
    /\ UNCHANGED <<env, qgis_server_base_path, config, ogc, data_handler, db,
                   username, group0, permissions, stack, warnings, raised, arg>>

CallEditPermissions ==
    /\ pc = "call_edit"
    /\ \E out \in edit_permissions(arg.map_name, username, group0) :
         /\ ret' = out
         /\ calls' = out.calls
         /\ warnings' = out.warnings
    /\ pc' = "returned_edit_permissions"
    /\ UNCHANGED <<env, qgis_server_base_path, config, ogc, data_handler, db,
                   username, group0, permissions, stack, raised, arg>>

CallEditLayerConfig ==
    /\ pc = "call_layer"
    /\ LET out == edit_layer_config(arg.map_name, arg.layer_name, username, group0)
       IN  /\ ret' = out
           /\ calls' = out.calls
           /\ warnings' = out.warnings
    /\ pc' = "returned_edit_layer_config"
    /\ UNCHANGED <<env, qgis_server_base_path, config, ogc, data_handler, db,
                   username, group0, permissions, stack, raised, arg>>

(***************************************************************************)
(* Inputs.                                                                 *)
(***************************************************************************)
\* "http://h"
HostUrl == <<"h", "t", "t", "p", ":", "/", "/", "h">>

Str_a == <<"a">>
Str_b == <<"b">>
Str_c == <<"c">>
Str_x == <<"x">>
Str_y == <<"y">>
Str_z == <<"z">>

\* QGIS_SERVER_URL: "http://h/w/" and "http://h"
Environments == {HostUrl \o <<"/", "w", "/">>, HostUrl}

\* lines 66-68: the base path of the constructor
base_path_of(qgis_server_url) == UrlPath(RStripSlash(qgis_server_url) \o <<"/">>)

\* theme items: "http://h/w/a", "/w/b?x", "http://h/v/w/a", "/w/a#f", "", and one
\* without 'url'
ItemChoices ==
    {[url |-> HostUrl \o <<"/", "w", "/", "a">>],
     [url |-> <<"/", "w", "/", "b", "?", "x">>],
     [url |-> HostUrl \o <<"/", "v", "/", "w", "/", "a">>],
     [url |-> <<"/", "w", "/", "a", "#", "f">>],
     [url |-> <<>>],
     [title |-> "t"]}

\* a theme group with one item "http://h/w/c" and no 'groups'
LeafGroup == [title |-> "g1", items |-> <<[url |-> HostUrl \o <<"/", "w", "/", "c">>]>>]

\* a theme group with no 'items' and one child group whose item is "/w/b"
NestedGroup ==
    [title |-> "g2",
     groups |-> <<[title |-> "g3", items |-> <<[url |-> <<"/", "w", "/", "b">>]>>,
                   groups |-> <<>>]>>]

\* the 'groups' part of the top-level themes node
GroupChoices ==
    {EmptyDict, [groups |-> <<LeafGroup>>], [groups |-> <<NestedGroup, LeafGroup>>]}

\* themes config documents
Configs ==
    {[defaultTheme |-> "t"]} \cup
    {[themes |-> ("items" :> its) @@ gs] :
        its \in SeqUpTo(ItemChoices, MaxItems), gs \in GroupChoices}

\* every item of a theme group, at any depth
RECURSIVE AllItems(_)
AllItems(group_config) ==
    Range(Get(group_config, "items", <<>>)) \cup
    UNION {AllItems(g) : g \in Range(Get(group_config, "groups", <<>>))}

\* results of the OGC permission handler: denied and granted
OgcResults == {EmptyDict, [qgis_project |-> "p"]}

\* the resources of the store: maps "a" and "b", a second map named "a", data
\* and layer resources below them
ResourceTable ==
    ("1" :> [id |-> "1", type |-> "map", name |-> Str_a, parent_id |-> None]) @@
    ("2" :> [id |-> "2", type |-> "map", name |-> Str_b, parent_id |-> None]) @@
    ("3" :> [id |-> "3", type |-> "data", name |-> Str_x, parent_id |-> "1"]) @@
    ("4" :> [id |-> "4", type |-> "data", name |-> Str_y, parent_id |-> "1"]) @@
    ("5" :> [id |-> "5", type |-> "data", name |-> Str_z, parent_id |-> "2"]) @@
    ("6" :> [id |-> "6", type |-> "layer", name |-> Str_z, parent_id |-> "1"]) @@
    ("7" :> [id |-> "7", type |-> "map", name |-> Str_a, parent_id |-> None]) @@
    ("8" :> [id |-> "8", type |-> "data", name |-> Str_z, parent_id |-> "7"])

Grant(id, resource_id, kind, who, write) ==
    [id |-> id, resource_id |-> resource_id, kind |-> kind, who |-> who,
     write |-> write]

\* the permission rows a store may hold
GrantChoices ==
    {Grant("p1", "1", "user", "u", FALSE),
     Grant("p2", "1", "group", "g", FALSE),
     Grant("p3", "3", "user", "u", TRUE),
     Grant("p4", "3", "group", "g", TRUE),
     Grant("p5", "4", "user", "u", TRUE),
     Grant("p6", "4", "user", "u", FALSE),
     Grant("p7", "4", "user", "o", TRUE),
     Grant("p8", "5", "user", "u", TRUE),
     Grant("p9", "6", "user", "u", TRUE),
     Grant("p10", "2", "user", "u", FALSE),
     Grant("p11", "7", "user", "u", FALSE),
     Grant("p12", "8", "user", "u", TRUE)}

Stores ==
    {[resources |-> ResourceTable, permissions |-> P] :
        P \in {Q \in SUBSET GrantChoices : Cardinality(Q) <= MaxGrants}}

\* the stores of the walk: empty, and maps "a" and "b" with writable data below
WalkStores ==
    {[resources |-> ResourceTable, permissions |-> P] :
        P \in {{}, {g \in GrantChoices : g.id \in {"p1", "p3", "p5", "p8", "p10"}}}}

\* Data handler results
FieldsOf(geometry_type) ==
    [geometry_type |-> geometry_type, schema |-> <<"s">>, table_name |-> <<"t">>,
     attributes |-> <<"id", "name">>,
     fields |-> [id |-> [data_type |-> "integer"],
                 name |-> [data_type |-> "character varying", alias |-> "Name"]]]

MapNames == {Str_a, Str_b}
LayerNames == {Str_x, Str_y, Str_z}
AllDatasets == {Format2(m, l) : m \in MapNames, l \in LayerNames}

\* a Data handler for which the datasets in U have an unsupported geometry type
HandlerWith(U) ==
    [d \in AllDatasets |->
        IF d \in U THEN FieldsOf("GEOMETRYCOLLECTION") ELSE FieldsOf("POLYGON")]

DataHandlers == {HandlerWith(U) : U \in SUBSET {Format2(Str_a, l) : l \in {Str_x, Str_y}}}

WalkDataHandlers == {HandlerWith({}), HandlerWith({Format2(Str_a, Str_y)})}

Idle ==
    /\ permissions = EmptyDict
    /\ stack = <<>>
    /\ calls = <<>>
    /\ warnings = <<>>
    /\ raised = "none"
    /\ ret = EmptyDict
    /\ username = "u"
    /\ group0 = GroupName("g")

(***************************************************************************)
(* Specification of permissions(): the resolution pass.                    *)
(***************************************************************************)
Init ==
    /\ Idle
    /\ pc = "permissions"
    /\ env \in Environments
    /\ qgis_server_base_path = base_path_of(env)
    /\ config \in Configs
    /\ ogc \in [{wms_name(item["url"]) :
                    item \in {it \in AllItems(Get(config, "themes", EmptyDict)) :
                                has_url(it)}} -> OgcResults]
    /\ data_handler \in WalkDataHandlers
    /\ db \in WalkStores
    /\ arg = EmptyDict

Next == Permissions \/ ItemStep \/ GroupStep \/ Return

Spec == Init /\ [][Next]_vars

(***************************************************************************)
(* Specification of direct calls of edit_datasets and edit_permissions.    *)
(***************************************************************************)
InitEdit ==
    /\ Idle
    /\ pc = "call_edit"
    /\ env = HostUrl
    /\ qgis_server_base_path = base_path_of(env)
    /\ config = EmptyDict
    /\ ogc = EmptyDict
    /\ data_handler \in DataHandlers
    /\ db \in Stores
    /\ arg \in {[map_name |-> m] : m \in {Str_a, Str_b, Str_c}}

NextEdit == CallEditDatasets \/ CallEditPermissions

SpecEdit == InitEdit /\ [][NextEdit]_vars

(***************************************************************************)
(* Specification of direct calls of edit_layer_config.                     *)
(***************************************************************************)
GeometryTypes ==
    DOMAIN EDIT_GEOM_TYPES \cup {"GEOMETRYCOLLECTION", "point", None}

DataTypeParts ==
    {EmptyDict} \cup {[data_type |-> t] : t \in DOMAIN EDIT_FIELD_TYPES \cup {"json"}}

AliasParts == {EmptyDict, [alias |-> "Name"]}

ConstraintParts ==
    {EmptyDict,
     [constraints |-> EmptyDict],
     [constraints |-> [maxlength |-> 10]],
     [constraints |-> [values |-> <<"A", "B">>]]}

\* field descriptors of the Data handler
Descriptors ==
    {dt @@ al @@ co : dt \in DataTypeParts, al \in AliasParts, co \in ConstraintParts}

\* the descriptors tried for the attribute "id"
IdDescriptors ==
    {[data_type |-> "integer"],
     [data_type |-> "bigint", alias |-> "Id"],
     [constraints |-> [values |-> <<"1", "2">>, readOnly |-> TRUE]]}

\* 'fields' maps of the Data handler: each of "id" and "name" described or not
FieldMaps ==
    {a @@ b : a \in {EmptyDict} \cup {[name |-> d] : d \in Descriptors},
              b \in {EmptyDict} \cup {[id |-> d] : d \in IdDescriptors}}

DataResults ==
    {[geometry_type |-> gt, schema |-> <<"s">>, table_name |-> <<"t">>,
      attributes |-> attrs, fields |-> fm] :
        gt \in GeometryTypes,
        attrs \in SeqUpTo({"id", "name"}, MaxAttrs),
        fm \in FieldMaps}

InitLayer ==
    /\ Idle
    /\ pc = "call_layer"
    /\ env = HostUrl
    /\ qgis_server_base_path = base_path_of(env)
    /\ config = EmptyDict
    /\ ogc = EmptyDict
    /\ db = [resources |-> ResourceTable, permissions |-> {}]
    /\ arg \in {[map_name |-> m, layer_name |-> Str_x] : m \in {Str_a, Str_b}}
    /\ data_handler \in
         {Format2(arg.map_name, arg.layer_name) :> r : r \in DataResults}

NextLayer == CallEditLayerConfig

SpecLayer == InitLayer /\ [][NextLayer]_vars

(***************************************************************************)
(* Properties.                                                             *)
(***************************************************************************)
\* p is a prefix of s, character by character
IsPrefixOf(p, s) == Len(p) <= Len(s) /\ \A i \in 1..Len(p) : s[i] = p[i]

\* the top-level themes node of the config
Themes == Get(config, "themes", EmptyDict)

\* k is the service identifier of url: its path, without the base path when
\* the path starts with it
IsServiceIdentifierOf(k, url) ==
    IF IsPrefixOf(qgis_server_base_path, UrlPath(url))
    THEN UrlPath(url) = qgis_server_base_path \o k
    ELSE UrlPath(url) = k

\* item is a leaf item that carries a non-empty URL
CarriesUrl(item) == "url" \in DOMAIN item /\ Len(item["url"]) > 0

\* C1: every key of the accumulator is the service identifier of a leaf item
\* of the theme tree that carries a URL.
C1_KeysAreServiceIdentifiers ==
    \A k \in DOMAIN permissions :
        \E item \in AllItems(Themes) :
            CarriesUrl(item) /\ IsServiceIdentifierOf(k, item["url"])

\* C1 witness: a finished pass that stored one identifier with the base path
\* stripped and one whose path does not start with the base path.
C1_Witness ==
    /\ pc = "done"
    /\ qgis_server_base_path = <<"/", "w", "/">>
    /\ DOMAIN permissions = {Str_a, <<"/", "v", "/", "w", "/", "a">>}

\* C2: the walk never raises, and a finished walk holds an entry for the
\* service identifier of every leaf item with a URL at every depth.
C2_WalkCoversEveryDepth ==
    /\ raised = "none"
    /\ pc = "done" =>
         \A item \in AllItems(Themes) :
             CarriesUrl(item) =>
                 \E k \in DOMAIN permissions : IsServiceIdentifierOf(k, item["url"])

\* the events of edit-permission computation for service identifier k
EditEventsFor(k) ==
    {i \in DOMAIN calls :
        \/ /\ calls[i].op \in {"edit_permissions", "edit_datasets", "maps_query",
                               "data_query"}
           /\ calls[i].name = k
        \/ /\ calls[i].op \in {"edit_layer_config", "data.permissions"}
           /\ IsPrefixOf(k \o <<".">>, calls[i].name)}

\* C3: an identifier the OGC handler denies has no 'edit_config' and no edit
\* permission computation; 'edit_config' is attached only to a granted
\* identifier, and is then a non-empty result of edit_permissions.
C3_DeniedHasNoEditConfig ==
    /\ \A k \in DOMAIN ogc :
         ~Truthy(ogc[k]) =>
            /\ EditEventsFor(k) = {}
            /\ k \in DOMAIN permissions => "edit_config" \notin DOMAIN permissions[k]
    /\ \A k \in DOMAIN permissions :
         "edit_config" \in DOMAIN permissions[k] =>
            /\ Truthy(ogc[k])
            /\ Truthy(permissions[k]["edit_config"])
            /\ \E e \in edit_permissions(k, username, group0) :
                 e.result = permissions[k]["edit_config"]

\* C3 witness: a finished pass in which "a" was denied although the store
\* holds editable datasets for it, and "b" was granted and got its edit config.
C3_Witness ==
    /\ pc = "done"
    /\ Str_a \in DOMAIN permissions
    /\ ~Truthy(ogc[Str_a])
    /\ \E e \in edit_permissions(Str_a, username, group0) : Truthy(e.result)
    /\ Str_b \in DOMAIN permissions
    /\ "edit_config" \in DOMAIN permissions[Str_b]

\* C10: every call of the walker and every query carries the subject that
\* was passed to permissions().
C10_SubjectIsPreserved ==
    \A i \in DOMAIN calls :
        /\ calls[i].username = username
        /\ calls[i].group.kind = "name"
        /\ calls[i].group.val = group0.val

\* the dataset of the direct call of edit_layer_config
CalledDataset == Format2(arg.map_name, arg.layer_name)

\* the Data handler's result for the direct call of edit_layer_config
HandlerResult == data_handler[CalledDataset]

SupportedGeometryTypes ==
    {"POINT", "MULTIPOINT", "LINESTRING", "MULTILINESTRING", "POLYGON",
     "MULTIPOLYGON"}

UiGeometryType(gt) ==
    CASE gt = "POINT" -> "Point"
      [] gt = "MULTIPOINT" -> "MultiPoint"
      [] gt = "LINESTRING" -> "LineString"
      [] gt = "MULTILINESTRING" -> "MultiLineString"
      [] gt = "POLYGON" -> "Polygon"
      [] gt = "MULTIPOLYGON" -> "MultiPolygon"

\* C4: edit_layer_config returns the empty config with exactly one warning
\* for a geometry type outside the table, and a non-empty config with the
\* mapped geomType and no warning for one inside; it never raises.
C4_UnsupportedGeometry ==
    pc = "returned_edit_layer_config" =>
        /\ raised = "none"
        /\ IF HandlerResult.geometry_type \in SupportedGeometryTypes
           THEN /\ Len(warnings) = 0
                /\ Truthy(ret.result)
                /\ ret.result["geomType"] = UiGeometryType(HandlerResult.geometry_type)
           ELSE /\ Len(warnings) = 1
                /\ ~Truthy(ret.result)

\* C4 witness: a call for a lower-case geometry type returned empty with one
\* warning.
C4_Witness ==
    /\ pc = "returned_edit_layer_config"
    /\ HandlerResult.geometry_type = "point"
    /\ Len(warnings) = 1
    /\ ~Truthy(ret.result)

\* the datasets of ret.datasets whose schema build is non-empty
BuildableDatasets ==
    {ret.datasets[i] : i \in {j \in DOMAIN ret.datasets :
        data_handler[Format2(arg.map_name, ret.datasets[j])].geometry_type
            \in SupportedGeometryTypes}}

\* C5: the keys of edit_permissions' result are exactly the editable
\* datasets whose schema build is non-empty, each with its own config.
C5_UnsupportedDatasetOmitted ==
    pc = "returned_edit_permissions" =>
        /\ raised = "none"
        /\ \E d \in edit_datasets(arg.map_name, username, group0) :
             d.result = ret.datasets
        /\ DOMAIN ret.result = BuildableDatasets
        /\ \A d \in DOMAIN ret.result :
             ret.result[d] = edit_layer_config(arg.map_name, d, username, group0).result

\* C5 witness: the first of two editable datasets has an unsupported
\* geometry type and only the second is in the result.
C5_Witness ==
    /\ pc = "returned_edit_permissions"
    /\ Len(ret.datasets) = 2
    /\ ret.datasets[1] \notin BuildableDatasets
    /\ DOMAIN ret.result = {ret.datasets[2]}

\* the descriptor the Data handler gives for attribute attr
DescriptorOf(attr) == Get(HandlerResult.fields, attr, EmptyDict)

\* the descriptor has constraints with a 'values' key
HasValues(d) == "constraints" \in DOMAIN d /\ "values" \in DOMAIN d["constraints"]

\* C6: a field whose descriptor has constraints with 'values' has type "list"
\* and the constraints copied; any other field has the table's type for its
\* data_type, "text" when unlisted or absent.
C6_ValuesForceListType ==
    pc = "returned_edit_layer_config" /\ Truthy(ret.result) =>
        \A i \in DOMAIN ret.result["fields"] \cap DOMAIN HandlerResult.attributes :
            LET f == ret.result["fields"][i]
                d == DescriptorOf(HandlerResult.attributes[i])
            IN  /\ "constraints" \in DOMAIN f <=> "constraints" \in DOMAIN d
                /\ "constraints" \in DOMAIN d => f["constraints"] = d["constraints"]
                /\ HasValues(d) => f["type"] = "list"
                /\ ~HasValues(d) =>
                     f["type"] =
                        IF "data_type" \in DOMAIN d
                           /\ d["data_type"] \in DOMAIN EDIT_FIELD_TYPES
                        THEN EDIT_FIELD_TYPES[d["data_type"]]
                        ELSE "text"

\* C6 witness: an attribute of data_type integer with enumerated values got
\* type "list".
C6_Witness ==
    /\ pc = "returned_edit_layer_config"
    /\ Truthy(ret.result)
    /\ \E i \in DOMAIN ret.result["fields"] :
         LET d == DescriptorOf(HandlerResult.attributes[i])
         IN  /\ HasValues(d)
             /\ "data_type" \in DOMAIN d
             /\ d["data_type"] = "integer"
             /\ ret.result["fields"][i]["type"] = "list"

\* the subject holds permission row p
Holds(p) ==
    \/ p.kind = "user" /\ p.who = username
    \/ p.kind = "group" /\ p.who = group0.val

\* no map resource of the called name is visible to the subject
NoVisibleMap ==
    ~\E p \in db.permissions :
        /\ Holds(p)
        /\ db.resources[p.resource_id].type = "map"
        /\ db.resources[p.resource_id].name = arg.map_name

\* C7: with no visible map resource of that name, edit_datasets returns the
\* empty sequence and edit_permissions the empty map, without the data
\* query and without the Data handler.
C7_MapNotFound ==
    NoVisibleMap =>
        /\ raised = "none"
        /\ pc = "returned_edit_datasets" => Len(ret.result) = 0
        /\ pc = "returned_edit_permissions" => ~Truthy(ret.result)
        /\ \A i \in DOMAIN calls : calls[i].op \notin {"data_query", "data.permissions"}

\* C7 witness: edit_permissions returned for a map the subject has no grant
\* on, while holding a write grant on a data resource below it.
C7_Witness ==
    /\ pc = "returned_edit_permissions"
    /\ NoVisibleMap
    /\ \E p \in db.permissions :
         /\ Holds(p) /\ p.write
         /\ db.resources[p.resource_id].type = "data"
         /\ db.resources[db.resources[p.resource_id].parent_id].name = arg.map_name

\* the subject holds a write grant on a data resource named n below map_id
WritableBelow(n, map_id) ==
    \E p \in db.permissions :
        /\ Holds(p) /\ p.write
        /\ db.resources[p.resource_id].type = "data"
        /\ db.resources[p.resource_id].name = n
        /\ db.resources[p.resource_id].parent_id = map_id

\* C8 as stated: a name is returned iff the subject holds a write grant on a
\* data resource of that name whose parent is a map resource of the given
\* name.
C8_WriteGrantIffReturned ==
    pc = "returned_edit_datasets" =>
        \A n \in LayerNames :
            n \in Range(ret.result) <=>
                \E m \in DOMAIN db.resources :
                    /\ db.resources[m].type = "map"
                    /\ db.resources[m].name = arg.map_name
                    /\ WritableBelow(n, m)

\* C8 amended: the map query resolves a map resource of the given name that
\* the subject holds a grant on, or none when there is no such resource; a
\* name is returned iff a map was resolved and the subject holds a write
\* grant on a data resource of that name whose parent is the resolved map.
C8_WriteGrantBelowVisibleMap ==
    pc = "returned_edit_datasets" =>
        /\ ret.map_id = None <=> NoVisibleMap
        /\ ret.map_id # None =>
             \E p \in db.permissions :
                 /\ Holds(p) /\ p.resource_id = ret.map_id
                 /\ db.resources[ret.map_id].type = "map"
                 /\ db.resources[ret.map_id].name = arg.map_name
        /\ \A n \in LayerNames :
             n \in Range(ret.result) <=>
                 (ret.map_id # None /\ WritableBelow(n, ret.map_id))

\* C8 witness: a name was returned for a visible map while the subject's
\* read-only grant on another data resource below it contributed none.
C8_Witness ==
    /\ pc = "returned_edit_datasets"
    /\ Len(ret.result) > 0
    /\ \E p \in db.permissions :
         /\ Holds(p) /\ ~p.write
         /\ db.resources[p.resource_id].type = "data"
         /\ db.resources[p.resource_id].parent_id = ret.map_id
         /\ db.resources[p.resource_id].name \notin Range(ret.result)

\* C9: the fields follow the attribute list one to one and in order, an
\* attribute without descriptor gets name = id and type "text", and
\* editDataset is "<map_name>.<layer_name>", the dataset sent to the Data
\* handler.
C9_FieldsFollowAttributes ==
    pc = "returned_edit_layer_config" /\ Truthy(ret.result) =>
        /\ Len(ret.result["fields"]) = Len(HandlerResult.attributes)
        /\ \A i \in DOMAIN ret.result["fields"] :
             /\ ret.result["fields"][i]["id"] = HandlerResult.attributes[i]
             /\ HandlerResult.attributes[i] \notin DOMAIN HandlerResult.fields =>
                  /\ ret.result["fields"][i]["name"] = HandlerResult.attributes[i]
                  /\ ret.result["fields"][i]["type"] = "text"
        /\ ret.result["editDataset"] = arg.map_name \o <<".">> \o arg.layer_name
        /\ \A i \in DOMAIN calls :
             calls[i].op = "data.permissions" =>
                 calls[i].name = ret.result["editDataset"]

\* C9 witness: attributes "name", "id" in that order, "id" without
\* descriptor, gave fields "name", "id" with "id" of type "text".
C9_Witness ==
    /\ pc = "returned_edit_layer_config"
    /\ Truthy(ret.result)
    /\ HandlerResult.attributes = <<"name", "id">>
    /\ "id" \notin DOMAIN HandlerResult.fields
    /\ Len(ret.result["fields"]) = 2
    /\ ret.result["fields"][2] = [id |-> "id", name |-> "id", type |-> "text"]

====
